---- MODULE Spec2Model ----
(***************************************************************************)
(* A model of aioevtracker's EVTrackerClient (src/src/aioevtracker):       *)
(* the session lifecycle (_get_session, close, __aexit__), the request     *)
(* executor (_request), the facade operations built on it, the payload     *)
(* builders of log_session / log_session_simple and the model parsers.     *)
(***************************************************************************)
EXTENDS Integers, Sequences, FiniteSets, TLC

\* ------------------------------------------------------------------ bounds
\* The number of sessions the client may create in one behaviour.
MaxSessions == 2
\* The number of optional arguments a log_session call supplies at once.
MaxSupplied == 2

\* The caller's concurrent tasks using one client.
Tasks == {"t1", "t2"}

\* ------------------------------------------------------- JSON / Python values
\* Every value is a tagged record; a key a dict does not hold maps to Absent.
Keys ==
    {"data", "error", "message", "id", "name", "make",
     "energyConsumedKwh", "totalCost", "startTime", "endTime", "location",
     "monthlyEnergy", "monthlySessions"}

Absent == [t |-> "absent"]
JNull == [t |-> "null"]
JNum(n) == [t |-> "num", n |-> n]
JStr(s) == [t |-> "str", s |-> s]
JBool(b) == [t |-> "bool", b |-> b]
JArr(a) == [t |-> "arr", a |-> a]
JObj(f) == [t |-> "obj", o |-> [k \in Keys |-> IF k \in DOMAIN f THEN f[k] ELSE Absent]]
EmptyObj == [t |-> "obj", o |-> [k \in Keys |-> Absent]]

\* Python's None is JSON's null.
None == JNull

\* dict.get(key, default): the value under key, or default when key is missing.
DictGet(d, key, default) == IF d.o[key] = Absent THEN default ELSE d.o[key]

HasKey(d, key) == d.o[key] # Absent

\* bool(v) of a Python value.
Truthy(v) ==
    CASE v.t = "null" -> FALSE
      [] v.t = "num" -> v.n # 0
      [] v.t = "str" -> v.s # ""
      [] v.t = "bool" -> v.b
      [] v.t = "arr" -> v.a # <<>>
      [] v.t = "obj" -> \E k \in Keys : v.o[k] # Absent
      [] OTHER -> TRUE

\* str(v) as an f-string renders it.
PyStr(v) ==
    CASE v.t = "str" -> v.s
      [] v.t = "null" -> "None"
      [] v.t = "num" -> ToString(v.n)
      [] OTHER -> "<repr>"

\* ------------------------------------------------------------- exceptions
\* The class each exception class derives from ("" above BaseException).
Parent(e) ==
    CASE e = "EVTrackerApiError" -> "Exception"
      [] e = "EVTrackerAuthenticationError" -> "EVTrackerApiError"
      [] e = "EVTrackerConnectionError" -> "EVTrackerApiError"
      [] e = "EVTrackerRateLimitError" -> "EVTrackerApiError"
      [] e = "ClientError" -> "Exception"
      [] e = "ClientConnectorError" -> "ClientError"
      [] e = "ClientConnectorSSLError" -> "ClientError"
      [] e = "ServerDisconnectedError" -> "ClientError"
      [] e = "ContentTypeError" -> "ClientError"
      [] e = "JSONDecodeError" -> "Exception"
      [] e = "KeyError" -> "Exception"
      [] e = "TypeError" -> "Exception"
      [] e = "AttributeError" -> "Exception"
      [] e = "TimeoutError" -> "Exception"
      [] e = "Exception" -> "BaseException"
      [] e = "CancelledError" -> "BaseException"
      [] OTHER -> ""

RECURSIVE IsInstance(_, _)
\* isinstance(<an exception of class e>, cls), as an except clause decides it.
IsInstance(e, cls) ==
    IF e = "" THEN FALSE
    ELSE IF e = cls THEN TRUE
    ELSE IsInstance(Parent(e), cls)

\* The error taxonomy of the library.
Taxonomy ==
    {"EVTrackerApiError", "EVTrackerAuthenticationError",
     "EVTrackerConnectionError", "EVTrackerRateLimitError"}

\* ---------------------------------------------------------------- outcomes
\* How a call ends: it returns a value or raises an exception.
NoMsg == [fmt |-> "", status |-> 0, arg |-> ""]
Msg(fmt, status, arg) == [fmt |-> fmt, status |-> status, arg |-> arg]
Return(v) == [kind |-> "return", value |-> v, exc |-> "", msg |-> NoMsg, cause |-> ""]
Raise(e, m, cause) == [kind |-> "raise", value |-> None, exc |-> e, msg |-> m, cause |-> cause]
Raised(out) == out.kind = "raise"

\* ------------------------------------------------------------ HTTP responses
\* A response body: its Content-Type, its text, and what json.loads makes of it.
BodyOf(ctype, text, wellformed, value) ==
    [ctype |-> ctype, text |-> text, wellformed |-> wellformed, value |-> value]

JsonBody(text, value) == BodyOf("application/json", text, TRUE, value)

CarTesla == JObj([id |-> JNum(1), name |-> JStr("Tesla")])
CarNoId == JObj([name |-> JStr("Tesla")])
SessionOk ==
    JObj([id |-> JNum(100), energyConsumedKwh |-> JNum(25),
          startTime |-> JStr("2025-11-26T22:00:00Z")])

BodyHtml == BodyOf("text/html", "<html>", FALSE, JNull)
BodyBadJson == BodyOf("application/json", "{oops", FALSE, JNull)
BodyCars == JsonBody("cars", JObj([data |-> JArr(<<CarTesla>>)]))
BodyCarsNoId == JsonBody("cars-noid", JObj([data |-> JArr(<<CarNoId>>)]))
BodyDataEmpty == JsonBody("data-empty", JObj([data |-> JArr(<<>>)]))
BodyDataNull == JsonBody("data-null", JObj([data |-> JNull]))
BodyNoData == JsonBody("{}", EmptyObj)
BodyCar == JsonBody("car", JObj([data |-> CarTesla]))
BodyCarNoId == JsonBody("car-noid", JObj([data |-> CarNoId]))
BodySession == JsonBody("session", JObj([data |-> SessionOk]))
BodyError == JsonBody("error", JObj([error |-> JObj([message |-> JStr("Bad request")])]))
BodyErrorNoMsg == JsonBody("error-nomsg", JObj([error |-> EmptyObj]))
BodyErrorStr == JsonBody("error-str", JObj([error |-> JStr("nope")]))
BodyArray == JsonBody("[]", JArr(<<>>))
BodyErrorNull == JsonBody("error-null", JObj([error |-> JNull]))
BodyScalar == JsonBody("5", JNum(5))
\* The error envelope sent as text/plain: the text is JSON, json() rejects it.
BodyErrorPlain ==
    BodyOf("text/plain", "error-plain",
           TRUE, JObj([error |-> JObj([message |-> JStr("Bad request")])]))

Bodies ==
    {BodyHtml, BodyBadJson, BodyCars, BodyCarsNoId, BodyDataEmpty, BodyDataNull,
     BodyNoData, BodyCar, BodyCarNoId, BodySession, BodyError, BodyErrorNoMsg,
     BodyErrorStr, BodyArray, BodyErrorNull, BodyScalar, BodyErrorPlain}

Statuses == {101, 200, 204, 304, 400, 401, 403, 404, 429, 500, 503}

\* The Retry-After header: missing, or its value.
NoHeader == ""
RetryAfterValues == {NoHeader, "30", "60"}

ResponseOf(status, retryAfter, body) ==
    [t |-> "response", status |-> status, retryAfter |-> retryAfter, body |-> body,
     exc |-> ""]

\* The transport call raised instead of delivering a response.
TransportError(exc) ==
    [t |-> "error", status |-> 0, retryAfter |-> NoHeader, body |-> BodyHtml, exc |-> exc]

\* Every response of the bounded input space: each status with each body, and
\* 429 with each Retry-After value as well.
AllResponses ==
    {ResponseOf(s, NoHeader, b) : s \in Statuses, b \in Bodies}
    \cup {ResponseOf(429, r, b) : r \in RetryAfterValues, b \in Bodies}
    \cup {ResponseOf(s, "30", BodyError) : s \in Statuses}

\* One response of each class.
SampleResponses ==
    {ResponseOf(200, NoHeader, BodyCars), ResponseOf(200, NoHeader, BodySession),
     ResponseOf(401, NoHeader, BodyError), ResponseOf(500, NoHeader, BodyHtml)}

\* What the transport raises: DNS failure or refused connection, TLS failure,
\* a dropped connection (aiohttp.ClientError subclasses), the total timeout
\* (asyncio.TimeoutError) and cancellation of the task (asyncio.CancelledError).
TransportExceptions ==
    {"ClientConnectorError", "ClientConnectorSSLError", "ServerDisconnectedError",
     "TimeoutError", "CancelledError"}

\* response.headers.get("Retry-After", default)
HeaderGet(resp, default) == IF resp.retryAfter = NoHeader THEN default ELSE resp.retryAfter

\* await response.text()
ResponseText(resp) == resp.body.text

\* await response.json(): the content type is checked, then the text is parsed.
ResponseJson(resp) ==
    IF resp.body.ctype # "application/json"
    THEN Raise("ContentTypeError", NoMsg, "")
    ELSE IF ~resp.body.wellformed
    THEN Raise("JSONDecodeError", NoMsg, "")
    ELSE Return(resp.body.value)

\* ------------------------------------------------------- the request executor
\* ErrorMessage without the fallback for an `error` that is no dict: the
\* default message stands in for it.
ErrorMessageNoFallback(resp) ==
    LET parsed == ResponseJson(resp)
    IN  IF Raised(parsed) /\ IsInstance(parsed.exc, "Exception")
        THEN ResponseText(resp)
        ELSE IF parsed.value.t # "obj"
        THEN ResponseText(resp)
        ELSE LET err == DictGet(parsed.value, "error", EmptyObj)
             IN  IF err.t # "obj"
                 THEN "Unknown error"
                 ELSE PyStr(DictGet(err, "message", JStr("Unknown error")))

\* error_data.get("error", {}).get("message", "Unknown error") inside
\* try/except Exception, with response.text() as the fallback.
ErrorMessage(resp) ==
    LET parsed == ResponseJson(resp)
    IN  IF Raised(parsed) /\ IsInstance(parsed.exc, "Exception")
        THEN ResponseText(resp)
        ELSE IF parsed.value.t # "obj"
        THEN ResponseText(resp)
        ELSE LET err == DictGet(parsed.value, "error", EmptyObj)
             IN  IF err.t # "obj"
                 THEN ResponseText(resp)
                 ELSE PyStr(DictGet(err, "message", JStr("Unknown error")))

\* Classify with the 403 branch missing: 403 falls through to the 4xx branch.
ClassifyWithout403(resp) ==
    IF resp.status = 401
    THEN Raise("EVTrackerAuthenticationError", Msg("Invalid API key", 0, ""), "")
    ELSE IF resp.status = 429
    THEN Raise("EVTrackerRateLimitError",
               Msg("Rate limit exceeded. Retry after {retry_after} seconds", 0,
                   HeaderGet(resp, "60")), "")
    ELSE IF resp.status >= 500
    THEN Raise("EVTrackerApiError",
               Msg("Server error: {status} - {text}", resp.status, ResponseText(resp)), "")
    ELSE IF resp.status >= 400
    THEN Raise("EVTrackerApiError",
               Msg("API error: {status} - {error_msg}", resp.status, ErrorMessage(resp)), "")
    ELSE ResponseJson(resp)

\* Classify with `> 400` for `>= 400`: status 400 is handled as a success.
ClassifyOffByOne(resp) ==
    IF resp.status = 401
    THEN Raise("EVTrackerAuthenticationError", Msg("Invalid API key", 0, ""), "")
    ELSE IF resp.status = 403
    THEN Raise("EVTrackerAuthenticationError",
               Msg("API key lacks permissions or PRO subscription required", 0, ""), "")
    ELSE IF resp.status = 429
    THEN Raise("EVTrackerRateLimitError",
               Msg("Rate limit exceeded. Retry after {retry_after} seconds", 0,
                   HeaderGet(resp, "60")), "")
    ELSE IF resp.status >= 500
    THEN Raise("EVTrackerApiError",
               Msg("Server error: {status} - {text}", resp.status, ResponseText(resp)), "")
    ELSE IF resp.status > 400
    THEN Raise("EVTrackerApiError",
               Msg("API error: {status} - {error_msg}", resp.status, ErrorMessage(resp)), "")
    ELSE ResponseJson(resp)

\* The body of `async with session.request(...) as response:`.
Classify(resp) ==
    IF resp.status = 401
    THEN Raise("EVTrackerAuthenticationError", Msg("Invalid API key", 0, ""), "")
    ELSE IF resp.status = 403
    THEN Raise("EVTrackerAuthenticationError",
               Msg("API key lacks permissions or PRO subscription required", 0, ""), "")
    ELSE IF resp.status = 429
    THEN Raise("EVTrackerRateLimitError",
               Msg("Rate limit exceeded. Retry after {retry_after} seconds", 0,
                   HeaderGet(resp, "60")), "")
    ELSE IF resp.status >= 500
    THEN Raise("EVTrackerApiError",
               Msg("Server error: {status} - {text}", resp.status, ResponseText(resp)), "")
    ELSE IF resp.status >= 400
    THEN Raise("EVTrackerApiError",
               Msg("API error: {status} - {error_msg}", resp.status, ErrorMessage(resp)), "")
    ELSE ResponseJson(resp)

\* except aiohttp.ClientError as err: raise EVTrackerConnectionError(...) from err
WrapClientError(out) ==
    IF Raised(out) /\ IsInstance(out.exc, "ClientError")
    THEN Raise("EVTrackerConnectionError", Msg("Connection error: {err}", 0, out.exc), out.exc)
    ELSE out

\* _request from the transport's result on: a response is classified, an
\* exception of the transport call passes through the except clause.
Request(tr) ==
    WrapClientError(IF tr.t = "error" THEN Raise(tr.exc, NoMsg, "") ELSE Classify(tr))

\* ------------------------------------------------------------ domain models
\* data[key] on a value that is not a dict raises TypeError, on a dict that
\* lacks the key KeyError.
Subscript(data, key) ==
    IF data.t # "obj" THEN Raise("TypeError", NoMsg, "")
    ELSE IF ~HasKey(data, key) THEN Raise("KeyError", NoMsg, "")
    ELSE Return(data.o[key])

\* data.get(key) on a value that is not a dict raises AttributeError.
MethodGet(data, key, default) ==
    IF data.t # "obj" THEN Raise("AttributeError", NoMsg, "")
    ELSE Return(DictGet(data, key, default))

\* Car.from_dict (model and year are read as make is).
CarFromDict(data) ==
    LET id == Subscript(data, "id")
        name == Subscript(data, "name")
    IN  IF Raised(id) THEN id
        ELSE IF Raised(name) THEN name
        ELSE Return([t |-> "Car", id |-> id.value, name |-> name.value,
                     make |-> DictGet(data, "make", None)])

\* datetime.fromisoformat on the strings of the model: the parsed value, or
\* "" for a string it rejects.
FromIsoFormat(s) ==
    CASE s = "2025-11-26T22:00:00+00:00" -> "2025-11-26 22:00:00 UTC"
      [] s = "2025-11-26T23:00:00+01:00" -> "2025-11-26 22:00:00 UTC"
      [] OTHER -> ""

\* value[:-1] + "+00:00" for a value that ends with "Z".
ReplaceZ(s) ==
    CASE s = "2025-11-26T22:00:00Z" -> "2025-11-26T22:00:00+00:00"
      [] s = "not-a-dateZ" -> "not-a-date+00:00"
      [] OTHER -> s

\* _parse_datetime
ParseDatetime(value) ==
    IF value = None THEN Return(None)
    ELSE IF value.t # "str" THEN Raise("AttributeError", NoMsg, "")
    ELSE LET parsed == FromIsoFormat(ReplaceZ(value.s))
         IN  IF parsed = "" THEN Return(None)
             ELSE Return([t |-> "datetime", at |-> parsed])

\* ChargingSession.from_dict (energy_source and rate_type are read as
\* location is).
SessionFromDict(data) ==
    LET id == Subscript(data, "id")
        start == ParseDatetime(DictGet(data, "startTime", None))
        end == ParseDatetime(DictGet(data, "endTime", None))
    IN  IF Raised(id) THEN id
        ELSE IF Raised(start) THEN start
        ELSE IF Raised(end) THEN end
        ELSE Return([t |-> "ChargingSession", id |-> id.value,
                     energy_kwh |-> DictGet(data, "energyConsumedKwh", JNum(0)),
                     cost |-> DictGet(data, "totalCost", None),
                     start_time |-> start.value,
                     end_time |-> end.value,
                     location |-> DictGet(data, "location", None)])

\* HomeAssistantState.from_dict (the other statistics are read as these two).
StateFromDict(data) ==
    LET first == MethodGet(data, "monthlyEnergy", JNum(0))
    IN  IF Raised(first) THEN first
        ELSE Return([t |-> "HomeAssistantState", monthly_energy |-> first.value,
                     monthly_sessions |-> DictGet(data, "monthlySessions", JNum(0))])

RECURSIVE CarsFromList(_, _)
\* [Car.from_dict(car) for car in items]: the first element that fails to
\* parse raises; done holds the cars parsed so far.
CarsFromList(items, done) ==
    IF items = <<>> THEN Return(JArr(done))
    ELSE LET car == CarFromDict(Head(items))
         IN  IF Raised(car) THEN car
             ELSE CarsFromList(Tail(items), Append(done, car.value))

\* The list comprehension of get_cars over whatever `data` is: a list is
\* mapped, an empty dict or string yields nothing, a dict or string yields
\* its keys or characters (strings), anything else is not iterable.
CarsFrom(data) ==
    CASE data.t = "arr" -> CarsFromList(data.a, <<>>)
      [] data.t \in {"obj", "str"} ->
            IF Truthy(data) THEN CarFromDict(JStr("k")) ELSE Return(JArr(<<>>))
      [] OTHER -> Raise("TypeError", NoMsg, "")

\* --------------------------------------------------------- facade operations
\* Each takes the outcome of its _request call.
GetCars(req) ==
    IF Raised(req) THEN req
    ELSE LET data == MethodGet(req.value, "data", JArr(<<>>))
         IN  IF Raised(data) THEN data ELSE CarsFrom(data.value)

GetCarsRaw(req) ==
    IF Raised(req) THEN req ELSE MethodGet(req.value, "data", JArr(<<>>))

\* get_default_car without the `if data` test: whatever `data` is gets parsed.
GetDefaultCarAlwaysParses(req) ==
    IF Raised(req) THEN req
    ELSE LET data == MethodGet(req.value, "data", None)
         IN  IF Raised(data) THEN data ELSE CarFromDict(data.value)

GetDefaultCar(req) ==
    IF Raised(req) THEN req
    ELSE LET data == MethodGet(req.value, "data", None)
         IN  IF Raised(data) THEN data
             ELSE IF Truthy(data.value) THEN CarFromDict(data.value)
             ELSE Return(None)

GetState(req) ==
    IF Raised(req) THEN req
    ELSE LET data == MethodGet(req.value, "data", EmptyObj)
         IN  IF Raised(data) THEN data ELSE StateFromDict(data.value)

GetStateRaw(req) ==
    IF Raised(req) THEN req ELSE MethodGet(req.value, "data", EmptyObj)

\* The tail of log_session and log_session_simple.
LogSessionResult(req) ==
    IF Raised(req) THEN req
    ELSE LET data == MethodGet(req.value, "data", EmptyObj)
         IN  IF Raised(data) THEN data ELSE SessionFromDict(data.value)

\* validate_api_key with its first except clause alone.
ValidateApiKeyAuthOnly(req) ==
    LET cars == GetCars(req)
    IN  IF ~Raised(cars) THEN Return(JBool(TRUE))
        ELSE IF IsInstance(cars.exc, "EVTrackerAuthenticationError") THEN Return(JBool(FALSE))
        ELSE cars

\* validate_api_key: the except clauses in their order.
ValidateApiKey(req) ==
    LET cars == GetCars(req)
    IN  IF ~Raised(cars) THEN Return(JBool(TRUE))
        ELSE IF IsInstance(cars.exc, "EVTrackerAuthenticationError") THEN Return(JBool(FALSE))
        ELSE IF IsInstance(cars.exc, "EVTrackerApiError") THEN Return(JBool(FALSE))
        ELSE cars

\* The operations, with the method and endpoint each requests.
ReadOps == {"get_cars", "get_cars_raw", "get_default_car", "get_state", "get_state_raw"}
LogOps == {"log_session", "log_session_simple"}
Ops == ReadOps \cup LogOps \cup {"validate_api_key"}

Method(op) == IF op \in LogOps THEN "POST" ELSE "GET"

Endpoint(op) ==
    CASE op \in {"get_cars", "get_cars_raw", "validate_api_key"} -> "/cars"
      [] op = "get_default_car" -> "/cars/default"
      [] op \in {"get_state", "get_state_raw"} -> "/homeassistant/state"
      [] op = "log_session" -> "/sessions"
      [] op = "log_session_simple" -> "/sessions/simple"

\* What operation op gives its caller, from the outcome of its request.
Facade(op, req) ==
    CASE op = "get_cars" -> GetCars(req)
      [] op = "get_cars_raw" -> GetCarsRaw(req)
      [] op = "get_default_car" -> GetDefaultCar(req)
      [] op = "get_state" -> GetState(req)
      [] op = "get_state_raw" -> GetStateRaw(req)
      [] op \in LogOps -> LogSessionResult(req)
      [] op = "validate_api_key" -> ValidateApiKey(req)

\* ---------------------------------------------------------- request payloads
\* The optional keyword arguments of log_session, and those log_session_simple
\* accepts.
OptionalArgs ==
    {"start_time", "end_time", "car_id", "location", "external_id", "provider",
     "energy_source", "rate_type", "price_per_kwh", "vat_percentage", "notes"}

SimpleArgs ==
    {"start_time", "end_time", "car_id", "location", "external_id",
     "energy_source", "rate_type"}

ArgsOf(op) == IF op = "log_session_simple" THEN SimpleArgs ELSE OptionalArgs

\* The body key each argument is sent under.
PayloadKey(arg) ==
    CASE arg = "start_time" -> "startTime"
      [] arg = "end_time" -> "endTime"
      [] arg = "car_id" -> "carId"
      [] arg = "location" -> "location"
      [] arg = "external_id" -> "externalId"
      [] arg = "provider" -> "provider"
      [] arg = "energy_source" -> "energySource"
      [] arg = "rate_type" -> "rateType"
      [] arg = "price_per_kwh" -> "pricePerKwhWithoutVat"
      [] arg = "vat_percentage" -> "vatPercentage"
      [] arg = "notes" -> "notes"

PayloadKeys == {"energyConsumedKwh"} \cup {PayloadKey(a) : a \in OptionalArgs}

\* A timezone-aware datetime argument: its wall clock and its UTC offset.
DateTime(wall, tz) == [t |-> "datetime", wall |-> wall, tz |-> tz]
DtUtc == DateTime("2025-11-26T22:00:00", "+00:00")
DtCet == DateTime("2025-11-26T23:00:00", "+01:00")

\* dt.astimezone(UTC).strftime("%Y-%m-%dT%H:%M:%SZ")
FormatUtc(dt) ==
    CASE dt = DtUtc -> "2025-11-26T22:00:00Z"
      [] dt = DtCet -> "2025-11-26T22:00:00Z"

\* _format_datetime_for_api
FormatDatetimeForApi(dt) ==
    IF dt = None THEN None
    ELSE IF dt.t = "str" THEN dt
    ELSE JStr(FormatUtc(dt))

\* str.upper()
Upper(s) ==
    CASE s = "grid" -> "GRID"
      [] s = "Solar" -> "SOLAR"
      [] s = "low" -> "LOW"
      [] OTHER -> s

\* The non-None values an argument is given in the model.
ValuesOf(arg) ==
    CASE arg \in {"start_time", "end_time"} ->
            {JStr(""), JStr("2025-11-26T22:00:00Z"), DtUtc, DtCet}
      [] arg \in {"car_id", "price_per_kwh", "vat_percentage"} -> {JNum(0), JNum(7)}
      [] arg \in {"energy_source", "rate_type"} ->
            {JStr(""), JStr("grid"), JStr("Solar"), JStr("low"), JStr("GRID")}
      [] OTHER -> {JStr(""), JStr("Home")}

AllValues == UNION {ValuesOf(a) : a \in OptionalArgs}

EnergyValues == {JNum(0), JNum(25)}

\* A call's arguments: energy_kwh and the optional ones given, the others
\* keeping their default None.
ArgsWith(energy, given) ==
    [a \in OptionalArgs \cup {"energy_kwh"} |->
        IF a = "energy_kwh" THEN energy
        ELSE IF a \in DOMAIN given THEN given[a] ELSE None]

\* Every call of op that supplies at most MaxSupplied optional arguments.
BoundedArgs(op) ==
    UNION {
        {ArgsWith(e, g) : e \in EnergyValues,
                          g \in {f \in [S -> AllValues] : \A a \in S : f[a] \in ValuesOf(a)}}
        : S \in {T \in SUBSET ArgsOf(op) : Cardinality(T) <= MaxSupplied}}

\* The bounded calls of each of the two operations.
LogSessionCalls == BoundedArgs("log_session")
LogSessionSimpleCalls == BoundedArgs("log_session_simple")
CallsOf(op) == IF op = "log_session_simple" THEN LogSessionSimpleCalls ELSE LogSessionCalls

\* Two calls: the required argument alone, and a few optional ones with it.
SampleArgs ==
    {ArgsWith(JNum(25), <<>>),
     ArgsWith(JNum(25), [location |-> JStr("Home"), energy_source |-> JStr("grid")])}

\* Included with the truthiness test on every argument: a zero is dropped.
IncludedByTruthiness(arg, args) ==
    CASE arg \in {"start_time", "end_time"} ->
            args[arg] # None /\ Truthy(FormatDatetimeForApi(args[arg]))
      [] OTHER -> Truthy(args[arg])

\* The condition under which the code adds an argument's key to the payload.
Included(arg, args) ==
    CASE arg \in {"start_time", "end_time"} ->
            args[arg] # None /\ Truthy(FormatDatetimeForApi(args[arg]))
      [] arg \in {"car_id", "price_per_kwh", "vat_percentage"} -> args[arg] # None
      [] OTHER -> Truthy(args[arg])

\* The value sent for an argument.
Sent(arg, args) ==
    CASE arg \in {"start_time", "end_time"} -> FormatDatetimeForApi(args[arg])
      [] arg \in {"energy_source", "rate_type"} -> JStr(Upper(args[arg].s))
      [] OTHER -> args[arg]

\* The payload of log_session / log_session_simple.
BuildPayload(op, args) ==
    [k \in PayloadKeys |->
        IF k = "energyConsumedKwh" THEN args["energy_kwh"]
        ELSE LET arg == CHOOSE a \in OptionalArgs : PayloadKey(a) = k
             IN  IF arg \in ArgsOf(op) /\ Included(arg, args) THEN Sent(arg, args)
                 ELSE Absent]

\* ------------------------------------------------------------------ state
VARIABLES
    api_key,       \* self.api_key
    base_url,      \* self.base_url, a sequence of URL pieces
    session,       \* self._session: NoSession, or the index of a session
    owned,         \* self._owned_session
    sessions,      \* every ClientSession there is: who made it, whether it is closed
    clientClosed,  \* the sessions the client has called close() on
    networkUsed,   \* whether an HTTP request has been issued
    pc,            \* per task: "idle", or "sent" while its request is awaited
    call,          \* per task: the operation and request in flight
    last           \* the operation that completed last, and how it ended

vars ==
    <<api_key, base_url, session, owned, sessions, clientClosed, networkUsed, pc, call, last>>

NoSession == 0

\* base_url.rstrip("/")
RECURSIVE RStripSlash(_)
RStripSlash(url) ==
    IF url # <<>> /\ url[Len(url)] = "/"
    THEN RStripSlash(SubSeq(url, 1, Len(url) - 1))
    ELSE url

BaseUrlInputs ==
    {<<"https://custom.api.com">>, <<"https://custom.api.com", "/">>,
     <<"https://custom.api.com", "/", "/">>}

NoTransport ==
    [t |-> "none", status |-> 0, retryAfter |-> NoHeader, body |-> BodyHtml, exc |-> ""]

NoCall ==
    [op |-> "", method |-> "", url |-> <<>>, headers |-> <<>>, args |-> <<>>,
     json |-> <<>>, session |-> NoSession]

\* An operation op that has completed: tr is what the transport gave it, req
\* how its _request call ended, out how the operation itself ended; passing is
\* the exception on its way out of the scope that __aexit__ ends ("" if none).
Completed(op, tr, req, out) ==
    [op |-> op, tr |-> tr, req |-> req, out |-> out, passing |-> ""]

Nothing(op) == Completed(op, NoTransport, Return(None), Return(None))

\* __init__, with a session supplied (open or already closed) or without.
Init ==
    \E supplied \in {"none", "open", "closed"}, url \in BaseUrlInputs :
        /\ api_key = "test_key"
        /\ base_url = RStripSlash(url)
        /\ session = IF supplied = "none" THEN NoSession ELSE 1
        /\ owned = FALSE
        /\ sessions = IF supplied = "none" THEN <<>>
                      ELSE <<[by |-> "caller", closed |-> supplied = "closed"]>>
        /\ clientClosed = {}
        /\ networkUsed = FALSE
        /\ pc = [t \in Tasks |-> "idle"]
        /\ call = [t \in Tasks |-> NoCall]
        /\ last = Nothing("__init__")

\* _get_session without the test of the session it has: every request makes
\* a session of its own.
GetSessionAlwaysCreates ==
    [session |-> Len(sessions) + 1, owned |-> TRUE,
     sessions |-> Append(sessions, [by |-> "client", closed |-> FALSE])]

\* _get_session without `self._owned_session = True`.
GetSessionForgetsOwnership ==
    IF session = NoSession \/ sessions[session].closed
    THEN [session |-> Len(sessions) + 1, owned |-> owned,
          sessions |-> Append(sessions, [by |-> "client", closed |-> FALSE])]
    ELSE [session |-> session, owned |-> owned, sessions |-> sessions]

\* _get_session: the handle, the flag and the sessions after it.
GetSession ==
    IF session = NoSession \/ sessions[session].closed
    THEN [session |-> Len(sessions) + 1, owned |-> TRUE,
          sessions |-> Append(sessions, [by |-> "client", closed |-> FALSE])]
    ELSE [session |-> session, owned |-> owned, sessions |-> sessions]

\* _get_headers
GetHeaders ==
    [x_api_key |-> api_key, content_type |-> "application/json",
     accept |-> "application/json"]

ClientCreated(ss) == {i \in DOMAIN ss : ss[i].by = "client"}

\* Task t calls operation op: the payload is built, _request obtains the
\* session and issues the HTTP request, and the task awaits the response.
Start(t, op, args) ==
    LET got == GetSession
    IN  /\ pc[t] = "idle"
        /\ Cardinality(ClientCreated(got.sessions)) <= MaxSessions
        /\ session' = got.session
        /\ owned' = got.owned
        /\ sessions' = got.sessions
        /\ networkUsed' = TRUE
        /\ pc' = [pc EXCEPT ![t] = "sent"]
        /\ call' = [call EXCEPT ![t] =
                [op |-> op, method |-> Method(op),
                 url |-> base_url \o <<Endpoint(op)>>,
                 headers |-> GetHeaders,
                 args |-> IF op \in LogOps THEN args ELSE <<>>,
                 json |-> IF op \in LogOps THEN BuildPayload(op, args) ELSE <<>>,
                 session |-> got.session]]
        /\ last' = Nothing("")
        /\ UNCHANGED <<api_key, base_url, clientClosed>>

\* The transport's result tr reaches task t: _request classifies it and the
\* operation maps or narrows what _request gave.
Finish(t, tr) ==
    /\ pc[t] = "sent"
    /\ pc' = [pc EXCEPT ![t] = "idle"]
    /\ call' = [call EXCEPT ![t] = NoCall]
    /\ last' = Completed(call[t].op, tr, Request(tr), Facade(call[t].op, Request(tr)))
    /\ UNCHANGED <<api_key, base_url, session, owned, sessions, clientClosed, networkUsed>>

Respond(t, resp) == Finish(t, resp)

TransportFail(t, exc) == Finish(t, TransportError(exc))

\* The guard of close() without the ownership flag.
ClosesSessionIgnoringOwner == session # NoSession /\ ~sessions[session].closed

\* The guard of close(): whether it closes self._session.
ClosesSession == owned /\ session # NoSession /\ ~sessions[session].closed

\* close()
Close ==
    /\ IF ClosesSession
       THEN /\ sessions' = [sessions EXCEPT ![session].closed = TRUE]
            /\ clientClosed' = clientClosed \cup {session}
       ELSE UNCHANGED <<sessions, clientClosed>>
    /\ last' = Nothing("close")
    /\ UNCHANGED <<api_key, base_url, session, owned, networkUsed, pc, call>>

\* __aexit__(*args): the scope ends, normally or with the exception of the
\* call that just failed passing through; it awaits close() and returns None.
AExit ==
    /\ IF ClosesSession
       THEN /\ sessions' = [sessions EXCEPT ![session].closed = TRUE]
            /\ clientClosed' = clientClosed \cup {session}
       ELSE UNCHANGED <<sessions, clientClosed>>
    /\ last' = [Nothing("__aexit__") EXCEPT !.passing = last.out.exc]
    /\ UNCHANGED <<api_key, base_url, session, owned, networkUsed, pc, call>>

\* The caller closes the session it supplied.
CallerClose ==
    /\ sessions # <<>>
    /\ sessions[1].by = "caller"
    /\ ~sessions[1].closed
    /\ sessions' = [sessions EXCEPT ![1].closed = TRUE]
    /\ UNCHANGED <<api_key, base_url, session, owned, clientClosed, networkUsed, pc, call, last>>

\* The operations whose requests the lifecycle specification issues; every
\* operation reaches the session through _request alone.
LifecycleOps == {"get_cars", "log_session_simple", "validate_api_key"}

\* Two tasks share the client; responses and arguments are samples.
Next ==
    \/ \E t \in Tasks, op \in LifecycleOps, args \in SampleArgs : Start(t, op, args)
    \/ \E t \in Tasks, resp \in SampleResponses : Respond(t, resp)
    \/ \E t \in Tasks, exc \in TransportExceptions : TransportFail(t, exc)
    \/ Close
    \/ AExit
    \/ CallerClose

Spec == Init /\ [][Next]_vars

\* One task makes one call at a time; every operation, over every response.
NextCall ==
    \/ \E op \in Ops, args \in SampleArgs : Start("t1", op, args)
    \/ \E resp \in AllResponses : Respond("t1", resp)
    \/ \E exc \in TransportExceptions : TransportFail("t1", exc)
    \/ Close

SpecCall == Init /\ [][NextCall]_vars

\* One task logs sessions, over every bounded choice of arguments.
NextPayload ==
    \/ \E op \in LogOps : \E args \in CallsOf(op) : Start("t1", op, args)
    \/ \E resp \in SampleResponses : Respond("t1", resp)

SpecPayload == Init /\ [][NextPayload]_vars

\* ------------------------------------------------------------------ claims
IsResponse == last.op \in Ops /\ last.tr.t = "response"

AuthStatuses == {401, 403}
SpecialStatuses == {401, 403, 429}

\* C1: whatever the endpoint and the body, a 401 or 403 response makes
\* _request raise AuthenticationError, a 429 response RateLimitError with the
\* Retry-After value ("60" without the header) in its message, and every
\* other status >= 400 the generic ApiError itself, none of its subclasses.
C1_StatusDecidesErrorKind ==
    IsResponse =>
        /\ last.tr.status \in AuthStatuses =>
              Raised(last.req) /\ last.req.exc = "EVTrackerAuthenticationError"
        /\ last.tr.status = 429 =>
              /\ Raised(last.req) /\ last.req.exc = "EVTrackerRateLimitError"
              /\ last.req.msg.fmt = "Rate limit exceeded. Retry after {retry_after} seconds"
              /\ last.req.msg.arg =
                    (IF last.tr.retryAfter = NoHeader THEN "60" ELSE last.tr.retryAfter)
        /\ (last.tr.status >= 400 /\ last.tr.status \notin SpecialStatuses) =>
              Raised(last.req) /\ last.req.exc = "EVTrackerApiError"

\* A 429 without Retry-After on the default-car endpoint, its body a car.
C1_Witness ==
    /\ IsResponse
    /\ last.op = "get_default_car"
    /\ last.tr.status = 429
    /\ last.tr.retryAfter = NoHeader
    /\ last.tr.body = BodyCar
    /\ last.req.msg.arg = "60"

\* C2: when the request of validate_api_key ends in a Connection error,
\* validate_api_key raises that Connection error and returns no boolean.
C2_ConnectionErrorPropagates ==
    (last.op = "validate_api_key" /\ Raised(last.req)
        /\ last.req.exc = "EVTrackerConnectionError")
    => (Raised(last.out) /\ last.out.exc = "EVTrackerConnectionError")

\* C3: validate_api_key returns True exactly when get_cars succeeds, and
\* returns False, raising nothing, on every response with a status >= 400.
C3_ValidateNarrowsStatusErrors ==
    last.op = "validate_api_key" =>
        /\ (last.out = Return(JBool(TRUE))) <=> ~Raised(GetCars(last.req))
        /\ (last.tr.t = "response" /\ last.tr.status >= 400) =>
              last.out = Return(JBool(FALSE))

\* A 500 answer to validate_api_key.
C3_Witness ==
    /\ last.op = "validate_api_key"
    /\ last.tr.t = "response"
    /\ last.tr.status = 500
    /\ last.out = Return(JBool(FALSE))
\* C4: the client never calls close() on a session its caller made,
\* whatever requests, close() calls and scope exits there were, also when the
\* caller closed its session and the client went on with one of its own.
C4_SuppliedSessionNeverClosedByClient ==
    \A i \in clientClosed : sessions[i].by # "caller"

\* The caller closed the session it supplied, the client made its own for a
\* request and has closed that one.
C4_Witness ==
    /\ sessions # <<>>
    /\ sessions[1].by = "caller"
    /\ sessions[1].closed
    /\ clientClosed # {}
    /\ 1 \notin clientClosed

AllIdle == \A t \in Tasks : pc[t] = "idle"

\* C5: once close() or __aexit__ has completed and no request is in flight,
\* every session the client created is closed; and a client closed before any
\* request has created no session, issued no request and raised nothing.
C5_OwnSessionsReleased ==
    /\ (last.op \in {"close", "__aexit__"} /\ AllIdle) =>
          \A i \in ClientCreated(sessions) : sessions[i].closed
    /\ (last.op \in {"close", "__aexit__"} /\ ~networkUsed) =>
          /\ ClientCreated(sessions) = {}
          /\ ~Raised(last.out)

\* A scope left with an error passing through, after the client had made a
\* second session of its own.
C5_Witness ==
    /\ last.op = "__aexit__"
    /\ last.passing # ""
    /\ AllIdle
    /\ Cardinality(ClientCreated(sessions)) = 2
    /\ \A i \in ClientCreated(sessions) : sessions[i].closed

InFlightLog(t) == pc[t] = "sent" /\ call[t].op \in LogOps

\* C6 as stated: the body holds energyConsumedKwh, and each optional key
\* exactly when its argument is not None, an empty string or a zero included.
C6_KeyPresentIffSupplied ==
    \A t \in Tasks : InFlightLog(t) =>
        /\ call[t].json["energyConsumedKwh"] = call[t].args["energy_kwh"]
        /\ \A a \in ArgsOf(call[t].op) :
              (call[t].json[PayloadKey(a)] # Absent) <=> (call[t].args[a] # None)

\* C6 as amended: the body holds energyConsumedKwh, each optional key exactly
\* when its argument is neither None nor the empty string (a zero is sent),
\* no key of an argument the operation does not take, and energyConsumedKwh
\* alone when no optional argument is given.
C6_KeyPresentIffNonEmpty ==
    \A t \in Tasks : InFlightLog(t) =>
        /\ call[t].json["energyConsumedKwh"] = call[t].args["energy_kwh"]
        /\ \A a \in ArgsOf(call[t].op) :
              (call[t].json[PayloadKey(a)] # Absent)
                 <=> (call[t].args[a] \notin {None, JStr("")})
        /\ \A a \in OptionalArgs \ ArgsOf(call[t].op) :
              call[t].json[PayloadKey(a)] = Absent
        /\ (\A a \in OptionalArgs : call[t].args[a] = None) =>
              \A k \in PayloadKeys \ {"energyConsumedKwh"} : call[t].json[k] = Absent

\* log_session with car_id 0 and an empty location: carId is sent, location
\* is not.
C6_Witness ==
    \E t \in Tasks :
        /\ InFlightLog(t)
        /\ call[t].op = "log_session"
        /\ call[t].args["car_id"] = JNum(0)
        /\ call[t].args["location"] = JStr("")
        /\ call[t].json["carId"] = JNum(0)
        /\ call[t].json["location"] = Absent

\* C7: every operation returns, or raises one of the four taxonomy errors.
C7_OnlyTaxonomyErrors ==
    last.op \in Ops => (Raised(last.out) => last.out.exc \in Taxonomy)

\* C8: a failure of the transport call reaches the caller of _request as a
\* Connection error whose cause is the transport's exception.
C8_TransportFailureIsConnectionError ==
    (last.op \in Ops /\ last.tr.t = "error") =>
        /\ Raised(last.req)
        /\ last.req.exc = "EVTrackerConnectionError"
        /\ last.req.cause = last.tr.exc

Is2xx(status) == status >= 200 /\ status <= 299

\* C9 as stated: _request returns only for a 2xx status; every other status
\* raises, and ApiError itself unless the status is 401, 403 or 429.
C9_ReturnsOnlyFor2xx ==
    (IsResponse /\ ~Is2xx(last.tr.status)) =>
        /\ Raised(last.req)
        /\ last.tr.status \notin SpecialStatuses => last.req.exc = "EVTrackerApiError"

\* C9 as amended: _request returns only for a status below 400, and then the
\* parsed body; every status >= 400 raises, and ApiError itself unless the
\* status is 401, 403 or 429; a 1xx or 3xx status is handled as a 2xx one is.
C9_ReturnsOnlyBelow400 ==
    IsResponse =>
        /\ ~Raised(last.req) =>
              /\ last.tr.status < 400
              /\ last.tr.body.wellformed
              /\ last.req.value = last.tr.body.value
        /\ last.tr.status >= 400 =>
              /\ Raised(last.req)
              /\ last.tr.status \notin SpecialStatuses =>
                    last.req.exc = "EVTrackerApiError"
        /\ (last.tr.status < 400 /\ last.tr.body.ctype = "application/json"
                /\ last.tr.body.wellformed) =>
              last.req = Return(last.tr.body.value)

\* A 304 whose body is a JSON object: _request returns it.
C9_Witness ==
    /\ IsResponse
    /\ last.tr.status = 304
    /\ last.tr.body = BodyCars
    /\ last.req = Return(BodyCars.value)

DataOf(body) == body.value.o["data"]

IsJsonObject(body) ==
    body.ctype = "application/json" /\ body.wellformed /\ body.value.t = "obj"

\* C10: on a 2xx response whose body is a JSON object, get_cars and
\* get_cars_raw return the empty list when `data` is [] or missing,
\* get_default_car returns None when `data` is null or missing, and the Car
\* of `data` when `data` is an object with `id` and `name`.
C10_NoDataIsNormal ==
    (IsResponse /\ Is2xx(last.tr.status) /\ IsJsonObject(last.tr.body)) =>
        LET data == DataOf(last.tr.body)
        IN  /\ (last.op \in {"get_cars", "get_cars_raw"} /\ data \in {Absent, JArr(<<>>)}) =>
                  last.out = Return(JArr(<<>>))
            /\ (last.op = "get_default_car" /\ data \in {Absent, JNull}) =>
                  last.out = Return(None)
            /\ (last.op = "get_default_car" /\ data.t = "obj"
                    /\ data.o["id"] # Absent /\ data.o["name"] # Absent) =>
                  /\ ~Raised(last.out)
                  /\ last.out.value # None
                  /\ last.out.value.t = "Car"
                  /\ last.out.value.id = data.o["id"]
                  /\ last.out.value.name = data.o["name"]

\* get_default_car answered 200 with `data: null`.
C10_Witness ==
    /\ IsResponse
    /\ last.op = "get_default_car"
    /\ last.tr.status = 200
    /\ last.tr.body = BodyDataNull
    /\ last.out = Return(None)

IsPlain4xx ==
    /\ IsResponse
    /\ last.tr.status >= 400
    /\ last.tr.status <= 499
    /\ last.tr.status \notin SpecialStatuses

\* The text of the body is JSON.
ParsesAsJson(body) == body.wellformed

\* What the path error.message names in a JSON value, "Unknown error" where
\* the path ends early.
EnvelopeMessage(value) ==
    IF value.t # "obj" \/ value.o["error"] = Absent THEN "Unknown error"
    ELSE IF value.o["error"].t # "obj" \/ value.o["error"].o["message"] = Absent
    THEN "Unknown error"
    ELSE PyStr(value.o["error"].o["message"])

\* C11 as stated: for a 4xx status other than 401, 403 and 429 the message
\* of the ApiError is the body's error.message whenever the body parses as
\* JSON, whatever its shape, and the raw text only when it does not parse.
C11_MessageFromEnvelopeWheneverJson ==
    IsPlain4xx =>
        /\ Raised(last.req) /\ last.req.exc = "EVTrackerApiError"
        /\ ParsesAsJson(last.tr.body) =>
              last.req.msg.arg = EnvelopeMessage(last.tr.body.value)
        /\ ~ParsesAsJson(last.tr.body) => last.req.msg.arg = last.tr.body.text

\* response.json() gives a dict whose `error` is a dict or is missing.
IsEnvelope(body) ==
    /\ body.ctype = "application/json"
    /\ body.wellformed
    /\ body.value.t = "obj"
    /\ body.value.o["error"] = Absent \/ body.value.o["error"].t = "obj"

\* C11 as amended: the message is error.message when the body is served as
\* JSON and is an object whose `error` is an object holding `message`; it is
\* "Unknown error" when that object has no `error`, or its `error` object no
\* `message`; it is the raw text in every other case: a body that is no
\* JSON or is not served as JSON, a JSON array or scalar, an `error` that is
\* no object.
C11_MessageFromEnvelopeOrRawText ==
    IsPlain4xx =>
        /\ Raised(last.req) /\ last.req.exc = "EVTrackerApiError"
        /\ last.req.msg.fmt = "API error: {status} - {error_msg}"
        /\ last.req.msg.status = last.tr.status
        /\ IsEnvelope(last.tr.body) =>
              last.req.msg.arg = EnvelopeMessage(last.tr.body.value)
        /\ ~IsEnvelope(last.tr.body) => last.req.msg.arg = last.tr.body.text

\* A 404 whose body is {"error": "nope"}: the message is the raw text.
C11_Witness ==
    /\ IsPlain4xx
    /\ last.tr.status = 404
    /\ last.tr.body = BodyErrorStr
    /\ last.req.msg.arg = BodyErrorStr.text

OpenOwn == {i \in ClientCreated(sessions) : ~sessions[i].closed}

\* C12: however the requests of several tasks interleave, at most one session
\* the client created is open at any moment, it is the one self._session
\* names and close() would close, every request in flight on an open session
\* of the client's runs on it, and a client constructed without a session has
\* created exactly one session as long as it has closed none.
\* (_get_session holds no await, so a request runs from its entry to the
\* start of the HTTP call without another task in between.)
C12_OneOwnSessionUnderConcurrency ==
    /\ Cardinality(OpenOwn) <= 1
    /\ \A i \in OpenOwn : session = i /\ ClosesSession
    /\ \A t \in Tasks :
          (pc[t] = "sent" /\ call[t].session \in OpenOwn) => call[t].session = session
    /\ (networkUsed /\ clientClosed = {} /\ \A i \in DOMAIN sessions : sessions[i].by = "client") =>
          Len(sessions) = 1

\* Two requests in flight at once on a client constructed without a session:
\* both run on the one session the first of them created.
C12_Witness ==
    /\ \A t \in Tasks : pc[t] = "sent" /\ call[t].session = 1
    /\ Len(sessions) = 1
    /\ sessions[1].by = "client"
    /\ ~sessions[1].closed
    /\ session = 1
    /\ owned

====
